---- MODULE Spec2Model ----
(***************************************************************************)
(* A model of the friss parser-combinator library: the primitive matchers  *)
(* of parsers.rs, the combinators of core.rs, the memoizing wrapper of     *)
(* memo.rs and the packrat (left-recursion) wrapper of packrat.rs.         *)
(*                                                                         *)
(* Inputs are byte sequences (a &str is its UTF-8 bytes, a slice its       *)
(* items).  A parser is a tagged tuple <<tag, ...>>; parse is the          *)
(* operator Eval, which threads the mutable state the wrappers share (the  *)
(* caches behind Rc<RefCell<..>>) and returns [o |-> outcome, st |-> st']. *)
(* An outcome is [k, rest, v] with k one of "ok" (Ok((rest, v))),          *)
(* "err" (Err((rest, v))), "panic" (the call unwinds) and "diverge" (the   *)
(* call does not return).                                                  *)
(***************************************************************************)
EXTENDS Naturals, Sequences, FiniteSets, TLC

VARIABLES parser, st, history

vars == <<parser, st, history>>

\* ------------------------------------------------------------- bounds

\* longest input, in bytes
MaxLen == 3
\* top-level parse calls made on one memoizing / packrat parser
MaxCalls == 2
\* longest input given to a memoizing / counting packrat parser, in bytes
MaxShort == 2
\* terms of the longest "1+1+...+1" chain
MaxTerms == 3
\* largest repetition count n / N of the bounded repetitions
MaxN == 2
\* nesting depth after which an evaluation counts as not returning
Fuel == 24

\* ------------------------------------------------------------- inputs

\* The bytes of the model: two one-byte characters and the two bytes of one
\* two-byte character (U+00E9, C3 A9).
AsciiBytes == {"a", "b"}
LeadByte == "C3"
ContByte == "A9"
Bytes == AsciiBytes \cup {LeadByte, ContByte}

RECURSIVE SeqsUpTo(_, _)
SeqsUpTo(S, n) ==
    IF n = 0 THEN {<<>>}
    ELSE LET shorter == SeqsUpTo(S, n - 1)
         IN  shorter \cup {Append(s, x) : s \in shorter, x \in S}

\* s is the UTF-8 encoding of a string: a lead byte is followed by its
\* continuation byte and a continuation byte follows a lead byte.
ValidUtf8(s) ==
    \A i \in 1..Len(s) :
        /\ s[i] = LeadByte => (i < Len(s) /\ s[i + 1] = ContByte)
        /\ s[i] = ContByte => (i > 1 /\ s[i - 1] = LeadByte)

StrInputs == {s \in SeqsUpTo(Bytes, MaxLen) : ValidUtf8(s)}

Suffix(s, r) ==
    /\ Len(r) <= Len(s)
    /\ r = SubSeq(s, Len(s) - Len(r) + 1, Len(s))

\* ------------------------------------------------------------- outcomes

Ok(rest, v) == [k |-> "ok", rest |-> rest, v |-> v]
Fail(rest, e) == [k |-> "err", rest |-> rest, v |-> e]
Panic(msg) == [k |-> "panic", rest |-> <<>>, v |-> <<"panic", msg>>]
Diverge == [k |-> "diverge", rest |-> <<>>, v |-> <<"diverge">>]

Returned(o) == o.k \in {"ok", "err"}

\* a caller-supplied error value
E(name) == <<"e", name>>

\* a finite map (HashMap): a function with a growing domain
EmptyMap == <<>>
Put(m, key, val) == [x \in DOMAIN m \cup {key} |-> IF x = key THEN val ELSE m[x]]

\* ------------------------------------------------- primitive matchers

\* str::is_char_boundary
is_char_boundary(s, i) ==
    \/ i = 0
    \/ i = Len(s)
    \/ (i < Len(s) /\ s[i + 1] # ContByte)

starts_with(input, lit) ==
    /\ Len(lit) <= Len(input)
    /\ SubSeq(input, 1, Len(lit)) = lit

Drop(input, n) == SubSeq(input, n + 1, Len(input))

\* the literal matcher with (ret, rest) of split_at taken the other way round
str_literal_matcher_swapped(self, err, input) ==
    IF Len(input) < Len(self) THEN Fail(input, err)
    ELSE IF starts_with(input, self)
         THEN Ok(SubSeq(input, 1, Len(self)), <<"str", Drop(input, Len(self))>>)
         ELSE Fail(input, err)

\* the item matcher handing back the split remainder on a mismatch
str_item_matcher_consuming(character, err, input) ==
    IF input = <<>> THEN Fail(input, err)
    ELSE IF is_char_boundary(input, 1)
         THEN IF input[1] = character
              THEN Ok(Drop(input, 1), <<"ch", input[1]>>)
              ELSE Fail(Drop(input, 1), err)
         ELSE Panic("split_at")

\* <&str as Parsable>::make_literal_matcher(self, err).parse(input)
str_literal_matcher(self, err, input) ==
    IF Len(input) < Len(self) THEN Fail(input, err)
    ELSE IF starts_with(input, self)
         THEN IF is_char_boundary(input, Len(self))
              THEN Ok(Drop(input, Len(self)), <<"str", self>>)
              ELSE Panic("split_at")
         ELSE Fail(input, err)

\* <&str as Parsable>::make_anything_matcher(err).parse(input)
str_anything_matcher(err, input) ==
    IF input = <<>> THEN Fail(input, err)
    ELSE IF is_char_boundary(input, 1)
         THEN Ok(Drop(input, 1), <<"ch", input[1]>>)
         ELSE Panic("split_at")

\* <&str as Parsable>::make_item_matcher(character, err).parse(input)
str_item_matcher(character, err, input) ==
    IF input = <<>> THEN Fail(input, err)
    ELSE IF is_char_boundary(input, 1)
         THEN IF input[1] = character
              THEN Ok(Drop(input, 1), <<"ch", input[1]>>)
              ELSE Fail(input, err)
         ELSE Panic("split_at")

\* <&str as Parsable>::make_empty_matcher(err).parse(input)
str_empty_matcher(err, input) ==
    IF input = <<>> THEN Ok(input, <<"unit">>) ELSE Fail(input, err)

\* <&[T] as Parsable>::make_literal_matcher(self, err).parse(input)
slice_literal_matcher(self, err, input) ==
    IF Len(input) < Len(self) THEN Fail(input, err)
    ELSE IF \E i \in 1..Len(self) : input[i] # self[i] THEN Fail(input, err)
    ELSE Ok(Drop(input, Len(self)), <<"str", self>>)

\* <&[T] as Parsable>::make_anything_matcher(err).parse(input)
slice_anything_matcher(err, input) ==
    IF input = <<>> THEN Fail(input, err)
    ELSE Ok(Drop(input, 1), <<"ch", input[1]>>)

\* <&[T] as Parsable>::make_item_matcher(character, err).parse(input)
slice_item_matcher(character, err, input) ==
    IF input = <<>> THEN Fail(input, err)
    ELSE IF input[1] = character
         THEN Ok(Drop(input, 1), <<"ch", input[1]>>)
         ELSE Fail(input, err)

\* <&[T] as Parsable>::make_empty_matcher(err).parse(input)
slice_empty_matcher(err, input) ==
    IF input = <<>> THEN Ok(input, <<"unit">>) ELSE Fail(input, err)

\* ------------------------------------------------- closures of the tests

\* The closures handed to map / map_err, by name.  "const" ignores its
\* argument, "fold" is Either::fold, "fst" is |(a, _b)| a, "binop" is
\* |(e, (_, t))| Expr::BinaryOp(e, Add, t), "inc" is |((_, inner), _)| inner + 1,
\* and any other name is an uninterpreted (injective) function.
ApplyFn(f, v) ==
    CASE f[1] = "const" -> f[2]
      [] f[1] = "fold" -> v[2]
      [] f[1] = "fst" -> v[2]
      [] f[1] = "binop" -> <<"BinaryOp", v[2], v[3][3]>>
      [] f[1] = "inc" -> <<"int", v[2][3][2] + 1>>
      [] OTHER -> <<"app", f, v>>

\* The binary closure a chain operator parser returns, applied.
ApplyFn2(f, a, b) == <<"app2", f, a, b>>

\* The predicates handed to validate, by name.
ApplyPred(pred, v) ==
    CASE pred = "always" -> TRUE
      [] pred = "never" -> FALSE
      [] OTHER -> v = <<"str", <<"a">>>>

\* The closures handed to bind / recover_with, which build the next parser:
\* <<"K", q>> is |_| q, <<"fail_with">> is |e| fail(e) and <<"lit_of", err>> is
\* |out| out.make_literal_matcher(err).
MakeParser(f, v) ==
    CASE f[1] = "K" -> f[2]
      [] f[1] = "fail_with" -> <<"fail", v>>
      [] OTHER -> <<"lit", "str", v[2], f[2]>>

\* ------------------------------------------------- shared mutable state

R(o, s) == [o |-> o, st |-> s]

\* PackratState::new
NewPackratState ==
    [memo_table |-> EmptyMap, recursion_state |-> EmptyMap,
     call_stack |-> <<>>, rec_borrowed |-> FALSE]

\* the state object behind a packrat parser's Rc handles
PkGet(s, sid) == IF sid \in DOMAIN s.pk THEN s.pk[sid] ELSE NewPackratState
PkSet(s, sid, pk) == [s EXCEPT !.pk = Put(@, sid, pk)]

\* MemoState::new / MemoState::with_id
CacheGet(s, mid) == IF mid \in DOMAIN s.cache THEN s.cache[mid] ELSE EmptyMap

\* nothing parsed yet: no packrat state, no memo cache, no counted call, no
\* observed call stack
NewState(order) ==
    [pk |-> EmptyMap, cache |-> EmptyMap, calls |-> EmptyMap, hash_order |-> order,
     stacks |-> {}]

Calls(s, id, input) ==
    IF <<id, input>> \in DOMAIN s.calls THEN s.calls[<<id, input>>] ELSE 0

Evaluating == [k |-> "eval", rest |-> <<>>, v |-> <<"Evaluating">>]

\* ------------------------------------------------------- combinators

RECURSIVE Eval(_, _, _, _)
RECURSIVE many_loop(_, _, _, _, _)
RECURSIVE at_least_n_loop(_, _, _, _, _, _, _)
RECURSIVE at_most_n_loop(_, _, _, _, _, _, _)
RECURSIVE exactly_n_loop(_, _, _, _, _, _, _, _)
RECURSIVE sep_loop(_, _, _, _, _, _)
RECURSIVE chainl1_loop(_, _, _, _, _, _)
RECURSIVE parse_right(_, _, _, _, _)
RECURSIVE grow(_, _, _, _, _, _, _, _)
RECURSIVE observing(_, _, _, _, _, _)

\* Parser::map
map(p, f, input, s, fuel) ==
    LET r == Eval(p, input, s, fuel - 1)
    IN  IF r.o.k = "ok" THEN R(Ok(r.o.rest, ApplyFn(f, r.o.v)), r.st) ELSE r

\* Parser::map_err
map_err(p, f, input, s, fuel) ==
    LET r == Eval(p, input, s, fuel - 1)
    IN  IF r.o.k = "err" THEN R(Fail(r.o.rest, ApplyFn(f, r.o.v)), r.st) ELSE r

\* validate keeping the consumed remainder when the predicate rejects
validate_consuming(p, pred, err, input, s, fuel) ==
    LET r == Eval(p, input, s, fuel - 1)
    IN  IF r.o.k = "ok"
        THEN IF ApplyPred(pred, r.o.v) THEN r ELSE R(Fail(r.o.rest, err), r.st)
        ELSE r

\* Parser::validate
validate(p, pred, err, input, s, fuel) ==
    LET r == Eval(p, input, s, fuel - 1)
    IN  IF r.o.k = "ok"
        THEN IF ApplyPred(pred, r.o.v) THEN r ELSE R(Fail(input, err), r.st)
        ELSE r

\* seq tagging every failure Left
seq_mistagged(p1, p2, input, s, fuel) ==
    LET r1 == Eval(p1, input, s, fuel - 1)
    IN  IF r1.o.k = "ok"
        THEN LET r2 == Eval(p2, r1.o.rest, r1.st, fuel - 1)
             IN  IF r2.o.k = "ok"
                 THEN R(Ok(r2.o.rest, <<"pair", r1.o.v, r2.o.v>>), r2.st)
                 ELSE IF r2.o.k = "err"
                 THEN R(Fail(r2.o.rest, <<"Left", r2.o.v>>), r2.st)
                 ELSE r2
        ELSE IF r1.o.k = "err"
        THEN R(Fail(r1.o.rest, <<"Left", r1.o.v>>), r1.st)
        ELSE r1

\* alt running both parsers before it looks at the first result
alt_eager(p1, p2, input, s, fuel) ==
    LET r1 == Eval(p1, input, s, fuel - 1)
        r2 == Eval(p2, input, r1.st, fuel - 1)
    IN  IF r1.o.k = "ok"
        THEN R(Ok(r1.o.rest, <<"Left", r1.o.v>>), r2.st)
        ELSE IF r1.o.k = "err"
        THEN IF r2.o.k = "ok"
             THEN R(Ok(r2.o.rest, <<"Right", r2.o.v>>), r2.st)
             ELSE IF r2.o.k = "err"
             THEN R(Fail(r2.o.rest, <<"tuple", r1.o.v, r2.o.v>>), r2.st)
             ELSE r2
        ELSE r1

\* Parser::seq
seq(p1, p2, input, s, fuel) ==
    LET r1 == Eval(p1, input, s, fuel - 1)
    IN  IF r1.o.k = "ok"
        THEN LET r2 == Eval(p2, r1.o.rest, r1.st, fuel - 1)
             IN  IF r2.o.k = "ok"
                 THEN R(Ok(r2.o.rest, <<"pair", r1.o.v, r2.o.v>>), r2.st)
                 ELSE IF r2.o.k = "err"
                 THEN R(Fail(r2.o.rest, <<"Right", r2.o.v>>), r2.st)
                 ELSE r2
        ELSE IF r1.o.k = "err"
        THEN R(Fail(r1.o.rest, <<"Left", r1.o.v>>), r1.st)
        ELSE r1

\* Parser::alt: the second parser is given the remainder of the first's failure
alt(p1, p2, input, s, fuel) ==
    LET r1 == Eval(p1, input, s, fuel - 1)
    IN  IF r1.o.k = "ok"
        THEN R(Ok(r1.o.rest, <<"Left", r1.o.v>>), r1.st)
        ELSE IF r1.o.k = "err"
        THEN LET r2 == Eval(p2, r1.o.rest, r1.st, fuel - 1)
             IN  IF r2.o.k = "ok"
                 THEN R(Ok(r2.o.rest, <<"Right", r2.o.v>>), r2.st)
                 ELSE IF r2.o.k = "err"
                 THEN R(Fail(r2.o.rest, <<"tuple", r1.o.v, r2.o.v>>), r2.st)
                 ELSE r2
        ELSE r1

\* maybe handing back the input it was given when the parser fails
maybe_rewinding(p, input, s, fuel) ==
    LET r == Eval(p, input, s, fuel - 1)
    IN  IF r.o.k = "ok" THEN R(Ok(r.o.rest, <<"Some", r.o.v>>), r.st)
        ELSE IF r.o.k = "err" THEN R(Ok(input, <<"None">>), r.st)
        ELSE r

\* Parser::maybe
maybe(p, input, s, fuel) ==
    LET r == Eval(p, input, s, fuel - 1)
    IN  IF r.o.k = "ok" THEN R(Ok(r.o.rest, <<"Some", r.o.v>>), r.st)
        ELSE IF r.o.k = "err" THEN R(Ok(r.o.rest, <<"None">>), r.st)
        ELSE r

\* Parser::many, one turn of its loop. The loop has no progress check: a
\* turn that succeeds on the remainder it was given is repeated for ever.
many_loop(p, rest, result, s, fuel) ==
    IF fuel < 1 THEN R(Diverge, s)
    ELSE LET r == Eval(p, rest, s, fuel - 1)
         IN  IF r.o.k = "ok"
             THEN IF r.o.rest = rest THEN R(Diverge, r.st)
                  ELSE many_loop(p, r.o.rest, Append(result, r.o.v), r.st, fuel - 1)
             ELSE IF r.o.k = "err"
             THEN R(Ok(r.o.rest, <<"vec", result>>), r.st)
             ELSE r

\* many that wants at least one match
many_at_least_one(p, input, s, fuel) ==
    LET r == many_loop(p, input, <<>>, s, fuel)
    IN  IF r.o.k = "ok" /\ r.o.v = <<"vec", <<>>>>
        THEN R(Fail(r.o.rest, <<"e", "no match">>), r.st)
        ELSE r

\* Parser::many
many(p, input, s, fuel) == many_loop(p, input, <<>>, s, fuel)

\* at_least_n passing on the error of the failing turn
at_least_n_loop_inner_error(p, err, rest, result, remaining, s, fuel) ==
    IF remaining = 0 THEN R(Ok(rest, <<"vec", result>>), s)
    ELSE LET r == Eval(p, rest, s, fuel - 1)
         IN  IF r.o.k = "ok"
             THEN at_least_n_loop(p, err, r.o.rest, Append(result, r.o.v),
                                  remaining - 1, r.st, fuel - 1)
             ELSE r

\* Parser::at_least_n, one turn of its loop
at_least_n_loop(p, err, rest, result, remaining, s, fuel) ==
    IF remaining = 0 THEN R(Ok(rest, <<"vec", result>>), s)
    ELSE LET r == Eval(p, rest, s, fuel - 1)
         IN  IF r.o.k = "ok"
             THEN at_least_n_loop(p, err, r.o.rest, Append(result, r.o.v),
                                  remaining - 1, r.st, fuel - 1)
             ELSE IF r.o.k = "err"
             THEN R(Fail(r.o.rest, err), r.st)
             ELSE r

\* at_least_n taking one turn more than n
at_least_n_one_more(p, n, err, input, s, fuel) ==
    at_least_n_loop(p, err, input, <<>>, n + 1, s, fuel)

\* Parser::at_least_n
at_least_n(p, n, err, input, s, fuel) ==
    at_least_n_loop(p, err, input, <<>>, n, s, fuel)

\* Parser::at_most_n, one turn of its loop; result is the array [None; N]
at_most_n_loop(p, N, rest, result, remaining, s, fuel) ==
    IF remaining = 0 THEN R(Ok(rest, <<"arr", result>>), s)
    ELSE LET r == Eval(p, rest, s, fuel - 1)
         IN  IF r.o.k = "ok"
             THEN at_most_n_loop(p, N, r.o.rest,
                                 [result EXCEPT ![N - remaining + 1] = <<"Some", r.o.v>>],
                                 remaining - 1, r.st, fuel - 1)
             ELSE IF r.o.k = "err"
             THEN R(Ok(r.o.rest, <<"arr", result>>), r.st)
             ELSE r

\* Parser::at_most_n
at_most_n(p, N, input, s, fuel) ==
    at_most_n_loop(p, N, input, [i \in 1..N |-> <<"None">>], N, s, fuel)

\* the checks after the loop answering a shortfall with the supplied error
exactly_n_finish_supplied(N, err, rest, result, maybe_err) ==
    IF maybe_err = <<>> /\ Len(result) = N THEN Ok(rest, <<"arr", result>>)
    ELSE Fail(rest, err)

\* Parser::exactly_n, the checks after its loop
exactly_n_finish(N, err, rest, result, maybe_err) ==
    IF maybe_err # <<>> THEN Fail(rest, maybe_err[1])
    ELSE IF Len(result) = N
         THEN \* split_first_chunk_mut::<N> is Some when result.len() >= N
              Ok(rest, <<"arr", result>>)
         ELSE Fail(rest, err)

\* Parser::exactly_n, one turn of its loop
exactly_n_loop(p, N, err, rest, result, remaining, s, fuel) ==
    IF remaining = 0 THEN R(exactly_n_finish(N, err, rest, result, <<>>), s)
    ELSE LET r == Eval(p, rest, s, fuel - 1)
         IN  IF r.o.k = "ok"
             THEN exactly_n_loop(p, N, err, r.o.rest, Append(result, r.o.v),
                                 remaining - 1, r.st, fuel - 1)
             ELSE IF r.o.k = "err"
             THEN R(exactly_n_finish(N, err, r.o.rest, result, <<r.o.v>>), r.st)
             ELSE r

\* Parser::exactly_n
exactly_n(p, N, err, input, s, fuel) ==
    exactly_n_loop(p, N, err, input, <<>>, N, s, fuel)

\* recover_with running the recovery parser where the failure stopped
recover_with_on_rest(p, recovery, input, s, fuel) ==
    LET r == Eval(p, input, s, fuel - 1)
    IN  IF r.o.k = "err"
        THEN Eval(MakeParser(recovery, r.o.v), r.o.rest, r.st, fuel - 1)
        ELSE r

\* Parser::recover_with
recover_with(p, recovery, input, s, fuel) ==
    LET r == Eval(p, input, s, fuel - 1)
    IN  IF r.o.k = "err"
        THEN Eval(MakeParser(recovery, r.o.v), input, r.st, fuel - 1)
        ELSE r

\* peek rewinding on failure as well
peek_rewinding(p, input, s, fuel) ==
    LET r == Eval(p, input, s, fuel - 1)
    IN  IF r.o.k = "ok" THEN R(Ok(input, r.o.v), r.st)
        ELSE IF r.o.k = "err" THEN R(Fail(input, r.o.v), r.st)
        ELSE r

\* Parser::peek
peek(p, input, s, fuel) ==
    LET r == Eval(p, input, s, fuel - 1)
    IN  IF r.o.k = "ok" THEN R(Ok(input, r.o.v), r.st) ELSE r

\* Parser::lookahead
lookahead(p, input, s, fuel) ==
    LET r == Eval(p, input, s, fuel - 1)
    IN  IF r.o.k = "ok" THEN R(Ok(input, r.o.v), r.st)
        ELSE IF r.o.k = "err" THEN R(Fail(input, r.o.v), r.st)
        ELSE r

\* backtrack without the rewind
backtrack_keep(p, input, s, fuel) == Eval(p, input, s, fuel - 1)

\* Parser::backtrack
backtrack(p, input, s, fuel) ==
    LET r == Eval(p, input, s, fuel - 1)
    IN  IF r.o.k = "err" THEN R(Fail(input, r.o.v), r.st) ELSE r

\* Parser::bind_output (and Parser::and_then, the same body)
bind_output(p, f, input, s, fuel) ==
    LET r == Eval(p, input, s, fuel - 1)
    IN  IF r.o.k = "ok"
        THEN Eval(MakeParser(f, r.o.v), r.o.rest, r.st, fuel - 1)
        ELSE r

\* Parser::bind_err
bind_err(p, f, err, input, s, fuel) ==
    LET r == Eval(p, input, s, fuel - 1)
    IN  IF r.o.k = "ok" THEN R(Fail(r.o.rest, err), r.st)
        ELSE IF r.o.k = "err"
        THEN Eval(MakeParser(f, r.o.v), r.o.rest, r.st, fuel - 1)
        ELSE r

\* Parser::bind
bind(p, out_bind, err_bind, input, s, fuel) ==
    LET r == Eval(p, input, s, fuel - 1)
    IN  IF r.o.k = "ok"
        THEN Eval(MakeParser(out_bind, r.o.v), r.o.rest, r.st, fuel - 1)
        ELSE IF r.o.k = "err"
        THEN Eval(MakeParser(err_bind, r.o.v), r.o.rest, r.st, fuel - 1)
        ELSE r

\* the sep_by loop leaving a separator consumed when no item follows it
sep_loop_trailing(p, sep, current_input, results, s, fuel) ==
    IF fuel < 1 THEN R(Diverge, s)
    ELSE LET r1 == Eval(sep, current_input, s, fuel - 1)
         IN  IF r1.o.k = "ok"
             THEN LET r2 == Eval(p, r1.o.rest, r1.st, fuel - 1)
                  IN  IF r2.o.k = "ok"
                      THEN IF r2.o.rest = current_input THEN R(Diverge, r2.st)
                           ELSE sep_loop(p, sep, r2.o.rest, Append(results, r2.o.v), r2.st, fuel - 1)
                      ELSE IF r2.o.k = "err"
                      THEN R(Ok(r1.o.rest, <<"vec", results>>), r2.st)
                      ELSE r2
             ELSE IF r1.o.k = "err"
             THEN R(Ok(current_input, <<"vec", results>>), r1.st)
             ELSE r1

\* Parser::sep_by / Parser::sep_by1, one turn of the separator loop
sep_loop(p, sep, current_input, results, s, fuel) ==
    IF fuel < 1 THEN R(Diverge, s)
    ELSE LET r1 == Eval(sep, current_input, s, fuel - 1)
         IN  IF r1.o.k = "ok"
             THEN LET r2 == Eval(p, r1.o.rest, r1.st, fuel - 1)
                  IN  IF r2.o.k = "ok"
                      THEN IF r2.o.rest = current_input THEN R(Diverge, r2.st)
                           ELSE sep_loop(p, sep, r2.o.rest, Append(results, r2.o.v), r2.st, fuel - 1)
                      ELSE IF r2.o.k = "err"
                      THEN R(Ok(current_input, <<"vec", results>>), r2.st)
                      ELSE r2
             ELSE IF r1.o.k = "err"
             THEN R(Ok(current_input, <<"vec", results>>), r1.st)
             ELSE r1

\* Parser::sep_by
sep_by(p, sep, input, s, fuel) ==
    LET r == Eval(p, input, s, fuel - 1)
    IN  IF r.o.k = "ok" THEN sep_loop(p, sep, r.o.rest, <<r.o.v>>, r.st, fuel - 1)
        ELSE IF r.o.k = "err" THEN R(Ok(input, <<"vec", <<>>>>), r.st)
        ELSE r

\* Parser::sep_by1
sep_by1(p, sep, err, input, s, fuel) ==
    LET r == Eval(p, input, s, fuel - 1)
    IN  IF r.o.k = "ok" THEN sep_loop(p, sep, r.o.rest, <<r.o.v>>, r.st, fuel - 1)
        ELSE IF r.o.k = "err" THEN R(Fail(input, err), r.st)
        ELSE r

\* the chainl1 loop applying the operator with its arguments exchanged
chainl1_loop_exchanged(p, op, rest, acc, s, fuel) ==
    IF fuel < 1 THEN R(Diverge, s)
    ELSE LET r1 == Eval(op, rest, s, fuel - 1)
         IN  IF r1.o.k = "ok"
             THEN LET r2 == Eval(p, r1.o.rest, r1.st, fuel - 1)
                  IN  IF r2.o.k = "ok"
                      THEN IF r2.o.rest = rest THEN R(Diverge, r2.st)
                           ELSE chainl1_loop(p, op, r2.o.rest, ApplyFn2(r1.o.v, r2.o.v, acc),
                                             r2.st, fuel - 1)
                      ELSE IF r2.o.k = "err" THEN R(Ok(rest, acc), r2.st)
                      ELSE r2
             ELSE IF r1.o.k = "err" THEN R(Ok(rest, acc), r1.st)
             ELSE r1

\* Parser::chainl1, one turn of its loop
chainl1_loop(p, op, rest, acc, s, fuel) ==
    IF fuel < 1 THEN R(Diverge, s)
    ELSE LET r1 == Eval(op, rest, s, fuel - 1)
         IN  IF r1.o.k = "ok"
             THEN LET r2 == Eval(p, r1.o.rest, r1.st, fuel - 1)
                  IN  IF r2.o.k = "ok"
                      THEN IF r2.o.rest = rest THEN R(Diverge, r2.st)
                           ELSE chainl1_loop(p, op, r2.o.rest, ApplyFn2(r1.o.v, acc, r2.o.v),
                                             r2.st, fuel - 1)
                      ELSE IF r2.o.k = "err" THEN R(Ok(rest, acc), r2.st)
                      ELSE r2
             ELSE IF r1.o.k = "err" THEN R(Ok(rest, acc), r1.st)
             ELSE r1

\* Parser::chainl1
chainl1(p, op, input, s, fuel) ==
    LET r == Eval(p, input, s, fuel - 1)
    IN  IF r.o.k = "ok" THEN chainl1_loop(p, op, r.o.rest, r.o.v, r.st, fuel - 1) ELSE r

\* Parser::chainr1, its helper parse_right
parse_right(term_parser, op_parser, input, s, fuel) ==
    IF fuel < 1 THEN R(Diverge, s)
    ELSE LET r == Eval(term_parser, input, s, fuel - 1)
         IN  IF r.o.k # "ok" THEN r
             ELSE LET r1 == Eval(op_parser, r.o.rest, r.st, fuel - 1)
                  IN  IF r1.o.k = "ok" /\ r1.o.rest = input
                      THEN R(Diverge, r1.st)
                      ELSE IF r1.o.k = "ok"
                      THEN LET r2 == parse_right(term_parser, op_parser, r1.o.rest, r1.st, fuel - 1)
                           IN  IF r2.o.k = "ok"
                               THEN R(Ok(r2.o.rest, ApplyFn2(r1.o.v, r.o.v, r2.o.v)), r2.st)
                               ELSE IF r2.o.k = "err" THEN R(Ok(r.o.rest, r.o.v), r2.st)
                               ELSE r2
                      ELSE IF r1.o.k = "err" THEN R(Ok(r.o.rest, r.o.v), r1.st)
                      ELSE r1

\* Parser::chainr1
chainr1(p, op, input, s, fuel) == parse_right(p, op, input, s, fuel)

\* A closure that counts its executions before it delegates, as the counting
\* parsers of the memoization tests do.
counting(id, p, input, s, fuel) ==
    Eval(p, input, [s EXCEPT !.calls = Put(@, <<id, input>>, Calls(s, id, input) + 1)], fuel - 1)

\* A closure that notes state.get_call_stack() under the name `tag` before it
\* delegates.
observing(tag, sid, p, input, s, fuel) ==
    Eval(p, input, [s EXCEPT !.stacks = @ \cup {<<tag, PkGet(s, sid).call_stack>>}], fuel - 1)

\* ---------------------------------------------------------- memo.rs

\* a memoized parse that stores successes only
memoized_parse_ok_only(mid, parser_id, body, input, s, fuel) ==
    LET key == <<input, parser_id>>
        cache == CacheGet(s, mid)
    IN  IF key \in DOMAIN cache
        THEN R(cache[key], s)
        ELSE LET r == Eval(body, input, s, fuel - 1)
             IN  IF r.o.k = "ok"
                 THEN R(r.o, [r.st EXCEPT !.cache =
                                 Put(@, mid, Put(CacheGet(r.st, mid), key, r.o))])
                 ELSE r

\* MemoizedParser::parse; parser_id is <<>> (None) or <<id>> (Some(id))
memoized_parse(mid, parser_id, body, input, s, fuel) ==
    LET key == <<input, parser_id>>
        cache == CacheGet(s, mid)
    IN  IF key \in DOMAIN cache
        THEN R(cache[key], s)
        ELSE LET r == Eval(body, input, s, fuel - 1)
             IN  IF Returned(r.o)
                 THEN R(r.o, [r.st EXCEPT !.cache =
                                 Put(@, mid, Put(CacheGet(r.st, mid), key, r.o))])
                 ELSE r

\* ------------------------------------------------------- packrat.rs

\* PackratState::enter_rule
enter_rule(pk, rule_id) == [pk EXCEPT !.call_stack = Append(@, rule_id)]

\* exit_rule leaving the stack as it is
exit_rule_keeping(pk) == pk

\* PackratState::exit_rule (Vec::pop, a no-op on an empty stack)
exit_rule(pk) ==
    [pk EXCEPT !.call_stack =
        IF @ = <<>> THEN <<>> ELSE SubSeq(@, 1, Len(@) - 1)]

\* PackratState::is_left_recursive
is_left_recursive(pk, rule_id) ==
    \E i \in 1..Len(pk.call_stack) : pk.call_stack[i] = rule_id

\* is_more_matched with the comparison reversed
is_more_matched_reversed(prev_rest, new_rest) == Len(new_rest) > Len(prev_rest)

\* is_more_matched, for the input types input_len knows
is_more_matched(prev_rest, new_rest) == Len(new_rest) < Len(prev_rest)

\* PackratParserImpl::string_to_error: the message itself for E = &str, a
\* panic for an error type it does not know
string_to_error(error_type, message) ==
    IF error_type = "&str" THEN [panics |-> FALSE, e |-> E(message)]
    ELSE [panics |-> TRUE, e |-> E(message)]

\* PackratParserImpl::create_error
create_error(error_type, message) == string_to_error(error_type, message)

\* return Err((input, self.create_error(message)))
LeftRecursionFailure(error_type, input, message, s) ==
    LET e == create_error(error_type, message)
    IN  IF e.panics
        THEN R(Panic("Cannot convert string to error type"), s)
        ELSE R(Fail(input, e.e), s)

\* The Success entry the loop over memo_table.iter() meets first: the map's
\* iteration order is not specified, the state's hash_order stands for it.
FirstSuccess(memo_table, rule_id, order) ==
    LET cands == {key \in DOMAIN memo_table :
                     key[2] = rule_id /\ memo_table[key].k = "ok"}
    IN  IF cands = {} THEN <<>>
        ELSE <<CHOOSE key \in cands : \A k2 \in cands :
                  IF order = "asc" THEN Len(key[1]) <= Len(k2[1])
                                   ELSE Len(key[1]) >= Len(k2[1])>>

\* packrat_parse, the branch taken when the memo entry is Evaluating
evaluating_branch(rule_id, sid, error_type, input, s) ==
    LET pk == PkGet(s, sid)
    IN  IF pk.rec_borrowed
        THEN \* recursion_state.borrow() while the growth loop holds borrow_mut()
             R(Panic("already mutably borrowed"), s)
        ELSE IF rule_id \notin DOMAIN pk.recursion_state
        THEN LeftRecursionFailure(error_type, input, "Left-recursive rule encountered",
                 PkSet(s, sid, [pk EXCEPT !.recursion_state =
                     Put(@, rule_id, [involved |-> TRUE, input_pos |-> input,
                                      involved_set |-> {rule_id}, status |-> "Growing"])]))
        ELSE IF pk.recursion_state[rule_id].status = "Growing"
        THEN LET found == FirstSuccess(pk.memo_table, rule_id, s.hash_order)
             IN  IF found # <<>>
                 THEN R(pk.memo_table[found[1]], s)
                 ELSE LeftRecursionFailure(error_type, input,
                                           "Left-recursive rule not yet resolved", s)
        ELSE LeftRecursionFailure(error_type, input,
                                  "Left-recursive rule reached fixed point", s)

\* the growth loop giving up after its first improving pass
grow_single_pass(rule_id, sid, body, input, previous_rest, previous_output, s, fuel) ==
    LET key == <<input, rule_id>>
        pk == PkGet(s, sid)
        s1 == PkSet(s, sid, [pk EXCEPT !.memo_table =
                                Put(@, key, Ok(previous_rest, previous_output))])
        r == Eval(body, input, s1, fuel - 1)
        stable(sx) == PkSet(sx, sid,
                            [PkGet(sx, sid) EXCEPT !.recursion_state[rule_id].status = "Stable"])
    IN  IF r.o.k = "ok" /\ is_more_matched(previous_rest, r.o.rest)
        THEN R(r.o, PkSet(stable(r.st), sid,
                          [PkGet(stable(r.st), sid) EXCEPT !.memo_table = Put(@, key, r.o)]))
        ELSE IF Returned(r.o)
        THEN R(Ok(previous_rest, previous_output), stable(r.st))
        ELSE r

\* packrat_parse, the growth loop; recursion_state stays mutably borrowed
grow(rule_id, sid, body, input, previous_rest, previous_output, s, fuel) ==
    IF fuel < 1 THEN R(Diverge, s)
    ELSE LET key == <<input, rule_id>>
             pk == PkGet(s, sid)
             s1 == PkSet(s, sid, [pk EXCEPT !.memo_table =
                                     Put(@, key, Ok(previous_rest, previous_output))])
             r == Eval(body, input, s1, fuel - 1)
             stable == PkSet(r.st, sid,
                             [PkGet(r.st, sid) EXCEPT !.recursion_state[rule_id].status = "Stable"])
         IN  IF r.o.k = "ok"
             THEN IF is_more_matched(previous_rest, r.o.rest)
                  THEN grow(rule_id, sid, body, input, r.o.rest, r.o.v, r.st, fuel - 1)
                  ELSE R(Ok(previous_rest, previous_output), stable)
             ELSE IF r.o.k = "err"
             THEN R(Ok(previous_rest, previous_output), stable)
             ELSE r

\* packrat_parse, from entering the rule to leaving it
evaluate_rule(rule_id, sid, body, input, s, fuel) ==
    LET key == <<input, rule_id>>
        pk0 == PkGet(s, sid)
        s1 == PkSet(s, sid, [enter_rule(pk0, rule_id) EXCEPT !.memo_table = Put(@, key, Evaluating)])
        r == Eval(body, input, s1, fuel - 1)
        pk2 == PkGet(r.st, sid)
        s2 == PkSet(r.st, sid, [pk2 EXCEPT !.memo_table = Put(@, key, r.o)])
        leave(sx) == PkSet(sx, sid, exit_rule(PkGet(sx, sid)))
    IN  IF r.o.k = "ok"
        THEN IF pk2.rec_borrowed
             THEN \* recursion_state.borrow_mut() inside an enclosing growth loop
                  R(Panic("already borrowed"), s2)
             ELSE IF /\ rule_id \in DOMAIN pk2.recursion_state
                     /\ pk2.recursion_state[rule_id].involved
                     /\ pk2.recursion_state[rule_id].status = "Growing"
             THEN LET g == grow(rule_id, sid, body, input, r.o.rest, r.o.v,
                                PkSet(s2, sid, [PkGet(s2, sid) EXCEPT !.rec_borrowed = TRUE]),
                                fuel - 1)
                  IN  IF Returned(g.o)
                      THEN R(g.o, leave(PkSet(g.st, sid,
                                 [PkGet(g.st, sid) EXCEPT !.rec_borrowed = FALSE])))
                      ELSE g
             ELSE R(r.o, leave(s2))
        ELSE IF r.o.k = "err"
        THEN R(r.o, leave(s2))
        ELSE r

\* packrat_parse without the memo-table lookup
packrat_parse_uncached(rule_id, sid, error_type, body, input, s, fuel) ==
    IF is_left_recursive(PkGet(s, sid), rule_id)
    THEN LeftRecursionFailure(error_type, input, "Left-recursive rule detected", s)
    ELSE evaluate_rule(rule_id, sid, body, input, s, fuel)

\* PackratParserImpl::packrat_parse
packrat_parse(rule_id, sid, error_type, body, input, s, fuel) ==
    LET key == <<input, rule_id>>
        pk == PkGet(s, sid)
    IN  IF key \in DOMAIN pk.memo_table
        THEN IF pk.memo_table[key].k = "eval"
             THEN evaluating_branch(rule_id, sid, error_type, input, s)
             ELSE R(pk.memo_table[key], s)
        ELSE IF is_left_recursive(pk, rule_id)
        THEN LeftRecursionFailure(error_type, input, "Left-recursive rule detected",
                 PkSet(s, sid, [pk EXCEPT !.memo_table = Put(@, key, Evaluating)]))
        ELSE evaluate_rule(rule_id, sid, body, input, s, fuel)

\* ------------------------------------------------------ the grammars

Lit(x, err) == <<"lit", "str", x, E(err)>>
Number == <<"Number">>
BinaryOp(l, r) == <<"BinaryOp", l, r>>

\* term of the packrat doc example: a literal mapped to Expr::Number
Term == <<"map", Lit(<<"1">>, "Expected number"), <<"const", Number>>>>

\* expr -> expr "+" term | term, as the doc example of PackratParser::packrat
\* builds it: (expr.seq("+".seq(term))).map(BinaryOp).alt(term).map(fold)
\*            .map_err(|_| "term failed").packrat("expr")
ExprBody ==
    <<"map_err",
      <<"map",
        <<"alt",
          <<"map", <<"seq", <<"ref", "expr">>,
                            <<"seq", Lit(<<"+">>, "Expected +"), Term>>>>,
                   <<"binop">>>>,
          Term>>,
        <<"fold">>>>,
      <<"const", E("term failed")>>>>

ExprParser == <<"packrat", "expr", "S1", "&str", ExprBody>>

Int(d) == <<"int", d>>

\* P -> "(" P ")" | empty, as test_recursive_parser builds it around the
\* placeholder `name`:
\*   nested = '('.seq(P).map_err(fold).seq(')').map_err(fold).map(inner + 1)
\*   empty  = "".make_literal_matcher("").map(|_| 0)
\*   nested.alt(empty).map_err(|(a, _b)| a).map(fold)
ParenBody(name) ==
    LET nested ==
            <<"map",
              <<"map_err",
                <<"seq",
                  <<"map_err",
                    <<"seq", <<"item", "str", "(", E("Expected opening paren")>>,
                             <<"ref", name>>>>,
                    <<"fold">>>>,
                  <<"item", "str", ")", E("Expected closing paren")>>>>,
                <<"fold">>>>,
              <<"inc">>>>
        empty == <<"map", Lit(<<>>, ""), <<"const", Int(0)>>>>
    IN  <<"map", <<"map_err", <<"alt", nested, empty>>, <<"fst">>>>, <<"fold">>>>

\* the parser recursive() returns in test_recursive_parser
ParenParser == ParenBody("paren")

\* the same grammar as one packrat rule
PackratParen == <<"packrat", "paren", "S1", "&str", ParenBody("pparen")>>

\* L -> L "a": a left-recursive rule without a base case
LoopBody(name) ==
    <<"map", <<"map_err", <<"seq", <<"ref", name>>, Lit(<<"a">>, "Expected a")>>,
                          <<"fold">>>>,
             <<"fst">>>>

\* the rule over the error type &str and over an error type of the caller's
\* own, such as an enum
LoopRule == <<"packrat", "loop", "S1", "&str", LoopBody("loop")>>
LoopRuleCustom == <<"packrat", "loop", "S1", "Custom", LoopBody("loop_custom")>>

Unit == <<"unit">>

\* S -> "a" | S "b" | S "c": a left-recursive rule that names its base case
\* first
BaseFirstBody ==
    <<"map_err",
      <<"map",
        <<"alt",
          <<"alt", Lit(<<"a">>, "Expected a"),
                   <<"seq", <<"ref", "base_first">>, Lit(<<"b">>, "Expected b")>>>>,
          <<"seq", <<"ref", "base_first">>, Lit(<<"c">>, "Expected c")>>>>,
        <<"const", Unit>>>>,
      <<"const", E("Expected a sum")>>>>

BaseFirstRule == <<"packrat", "base_first", "S1", "&str", BaseFirstBody>>

\* A -> B "x" | "a" and B -> A "y" | "b", two packrat rules over one shared
\* PackratState (packrat_with_state); each body notes the call stack it is
\* evaluated under
RuleABody ==
    <<"observing", "A", "S1",
      <<"map_err",
        <<"map", <<"alt", <<"seq", <<"ref", "B">>, Lit(<<"x">>, "Expected x")>>,
                          Lit(<<"a">>, "Expected a")>>,
                 <<"const", Unit>>>>,
        <<"const", E("Expected A")>>>>>>

RuleBBody ==
    <<"observing", "B", "S1",
      <<"map_err",
        <<"map", <<"alt", <<"seq", <<"ref", "A">>, Lit(<<"y">>, "Expected y")>>,
                          Lit(<<"b">>, "Expected b")>>,
                 <<"const", Unit>>>>,
        <<"const", E("Expected B")>>>>>>

RuleA == <<"packrat", "A", "S1", "&str", RuleABody>>
RuleB == <<"packrat", "B", "S1", "&str", RuleBBody>>

\* The parsers built with recursive(): the name a placeholder refers to.
Defs ==
    [expr |-> ExprParser, paren |-> ParenParser, pparen |-> PackratParen,
     loop |-> LoopRule, loop_custom |-> LoopRuleCustom,
     base_first |-> BaseFirstRule, A |-> RuleA, B |-> RuleB]

\* recursive(): the placeholder and the returned closure both delegate to the
\* parser stored in the cell
recursive(name, input, s, fuel) == Eval(Defs[name], input, s, fuel - 1)

\* ------------------------------------------------------------ parse

\* the primitive matchers, by input type
primitive(p, input) ==
    CASE p[1] = "lit" -> IF p[2] = "str" THEN str_literal_matcher(p[3], p[4], input)
                         ELSE slice_literal_matcher(p[3], p[4], input)
      [] p[1] = "any" -> IF p[2] = "str" THEN str_anything_matcher(p[3], input)
                         ELSE slice_anything_matcher(p[3], input)
      [] p[1] = "item" -> IF p[2] = "str" THEN str_item_matcher(p[3], p[4], input)
                          ELSE slice_item_matcher(p[3], p[4], input)
      [] p[1] = "empty" -> IF p[2] = "str" THEN str_empty_matcher(p[3], input)
                           ELSE slice_empty_matcher(p[3], input)

IsPrimitive(p) == p[1] \in {"lit", "any", "item", "empty"}

\* Parser::parse of the parser p
Eval(p, input, s, fuel) ==
    IF fuel < 1 THEN R(Diverge, s)
    ELSE CASE IsPrimitive(p) -> R(primitive(p, input), s)
           [] p[1] = "pure" -> R(Ok(input, p[2]), s)
           [] p[1] = "fail" -> R(Fail(input, p[2]), s)
           [] p[1] = "map" -> map(p[2], p[3], input, s, fuel)
           [] p[1] = "map_err" -> map_err(p[2], p[3], input, s, fuel)
           [] p[1] = "validate" -> validate(p[2], p[3], p[4], input, s, fuel)
           [] p[1] = "seq" -> seq(p[2], p[3], input, s, fuel)
           [] p[1] = "alt" -> alt(p[2], p[3], input, s, fuel)
           [] p[1] = "maybe" -> maybe(p[2], input, s, fuel)
           [] p[1] = "many" -> many(p[2], input, s, fuel)
           [] p[1] = "at_least_n" -> at_least_n(p[2], p[3], p[4], input, s, fuel)
           [] p[1] = "at_most_n" -> at_most_n(p[2], p[3], input, s, fuel)
           [] p[1] = "exactly_n" -> exactly_n(p[2], p[3], p[4], input, s, fuel)
           [] p[1] = "recover_with" -> recover_with(p[2], p[3], input, s, fuel)
           [] p[1] = "peek" -> peek(p[2], input, s, fuel)
           [] p[1] = "lookahead" -> lookahead(p[2], input, s, fuel)
           [] p[1] = "backtrack" -> backtrack(p[2], input, s, fuel)
           [] p[1] = "bind_output" -> bind_output(p[2], p[3], input, s, fuel)
           [] p[1] = "bind_err" -> bind_err(p[2], p[3], p[4], input, s, fuel)
           [] p[1] = "bind" -> bind(p[2], p[3], p[4], input, s, fuel)
           [] p[1] = "sep_by" -> sep_by(p[2], p[3], input, s, fuel)
           [] p[1] = "sep_by1" -> sep_by1(p[2], p[3], p[4], input, s, fuel)
           [] p[1] = "chainl1" -> chainl1(p[2], p[3], input, s, fuel)
           [] p[1] = "chainr1" -> chainr1(p[2], p[3], input, s, fuel)
           [] p[1] = "counting" -> counting(p[2], p[3], input, s, fuel)
           [] p[1] = "observing" -> observing(p[2], p[3], p[4], input, s, fuel)
           [] p[1] = "memoize" -> memoized_parse(p[2], p[3], p[4], input, s, fuel)
           [] p[1] = "packrat" -> packrat_parse(p[2], p[3], p[4], p[5], input, s, fuel)
           [] p[1] = "ref" -> recursive(p[2], input, s, fuel)

\* the outcome of one parse call on a parser with nothing cached
Fresh(p, input) == Eval(p, input, NewState("asc"), Fuel).o

\* ------------------------------------------------- parsers under test

A == Lit(<<"a">>, "Expected a")
B == Lit(<<"b">>, "Expected b")
\* consumes "a" before it fails on the second literal
AB == <<"seq", A, B>>
\* the literal "": succeeds on every input and consumes nothing
Eps == Lit(<<>>, "")
AnyChar == <<"any", "str", E("Expected any character")>>
EndOfInput == <<"empty", "str", E("Expected end")>>
\* the literal of the two-byte character
Accent == Lit(<<LeadByte, ContByte>>, "Expected accent")

Comp == {A, B, AB, Eps, AnyChar, EndOfInput, Accent}

Counting1(p) == <<"counting", "p1", p>>
Counting2(p) == <<"counting", "p2", p>>

\* the four primitive matchers of &str and of slices
Primitives ==
    LET kinds == {"str", "slice"}
    IN  {<<"lit", kd, x, E("lit")>> : kd \in kinds,
             x \in {<<>>, <<"a">>, <<"a", "b">>, <<LeadByte, ContByte>>}}
        \cup {<<"any", kd, E("any")>> : kd \in kinds}
        \cup {<<"item", "str", c, E("item")>> : c \in {"a", "b", "accent"}}
        \cup {<<"item", "slice", c, E("item")>> : c \in {"a", LeadByte}}
        \cup {<<"empty", kd, E("empty")>> : kd \in kinds}

AltParsers == {<<"alt", Counting1(x), Counting2(y)>> : x \in Comp, y \in Comp}
SeqParsers == {<<"seq", Counting1(x), Counting2(y)>> : x \in Comp, y \in Comp}

UnaryParsers ==
    UNION {{<<"map", x, <<"f">>>>, <<"map_err", x, <<"g">>>>,
            <<"maybe", x>>, <<"many", x>>, <<"peek", x>>, <<"lookahead", x>>,
            <<"backtrack", x>>} : x \in Comp}
    \cup {<<"validate", x, pred, E("invalid")>> : x \in Comp, pred \in {"always", "never", "isA"}}
    \cup {<<"at_least_n", x, n, E("at least")>> : x \in Comp, n \in 0..MaxN}
    \cup {<<"at_most_n", x, n>> : x \in Comp, n \in 0..MaxN}
    \cup {<<"exactly_n", x, n, E("exactly")>> : x \in Comp, n \in 0..MaxN}

BinaryParsers ==
    UNION {{<<"sep_by", x, y>>, <<"sep_by1", x, y, E("sep_by1")>>,
            <<"chainl1", x, y>>, <<"chainr1", x, y>>,
            <<"recover_with", x, <<"K", y>>>>,
            <<"bind_output", x, <<"K", y>>>>,
            <<"bind_err", x, <<"K", y>>, E("bind_err")>>} : x \in Comp, y \in Comp}
    \cup {<<"bind", x, <<"K", y>>, <<"K", z>>>> : x \in {A, AB, Eps}, y \in Comp, z \in {A, AB, Eps}}
    \cup {<<"bind_output", Lit(x, "first"), <<"lit_of", E("again")>>>> : x \in {<<"a">>, <<"a", "b">>}}

\* combinators over combinators
NestedParsers ==
    LET inner == {<<"alt", AB, A>>, <<"many", A>>, <<"maybe", AB>>, <<"backtrack", AB>>,
                  <<"sep_by", A, B>>, <<"seq", AnyChar, AB>>}
    IN  UNION {{<<"alt", x, y>>, <<"seq", x, y>>, <<"recover_with", x, <<"K", y>>>>}
                  : x \in inner, y \in inner \cup {A}}
        \cup UNION {{<<"many", x>>, <<"backtrack", x>>, <<"maybe", x>>,
                     <<"at_most_n", x, MaxN>>} : x \in inner}

\* recover_with with the recovery parser counted, and with |e| fail(e)
RecoverParsers ==
    {<<"recover_with", Counting1(x), <<"K", Counting2(y)>>>> : x \in Comp, y \in Comp}
    \cup {<<"recover_with", x, <<"fail_with">>>> : x \in Comp}

\* the repetitions over a parser whose calls are counted
CountedRepetitions ==
    {<<"many", Counting1(x)>> : x \in Comp}
    \cup {<<"at_least_n", Counting1(x), n, E("at least")>> : x \in Comp, n \in 0..MaxN}
    \cup {<<"at_most_n", Counting1(x), n>> : x \in Comp, n \in 0..MaxN}
    \cup {<<"exactly_n", Counting1(x), n, E("exactly")>> : x \in Comp, n \in 0..MaxN}

Combinators ==
    Primitives \cup AltParsers \cup SeqParsers \cup UnaryParsers
    \cup BinaryParsers \cup NestedParsers \cup RecoverParsers \cup CountedRepetitions

\* the pure parsers a memoizing or packrat wrapper is put around
PureBodies == {A, AB, Eps, <<"many", A>>, <<"alt", AB, A>>}

MemoizedParsers ==
    {<<"memoize", "M1", id, <<"counting", "p", x>>>> : x \in PureBodies, id \in {<<>>, <<"rule">>}}

CountingPackratParsers ==
    {<<"packrat", "counter", "S1", "&str", <<"counting", "p", x>>>> : x \in PureBodies}

\* the grammars of the tests and doc examples
GrammarParsers ==
    {ExprParser, ParenParser, PackratParen, LoopRule, LoopRuleCustom, BaseFirstRule,
     RuleA}

SessionParsers == MemoizedParsers \cup CountingPackratParsers \cup GrammarParsers

ShortInputs == SeqsUpTo(AsciiBytes, MaxShort)

RECURSIVE Chain(_)
\* "1", "1+1", "1+1+1", ...
Chain(k) == IF k = 1 THEN <<"1">> ELSE Chain(k - 1) \o <<"+", "1">>

RECURSIVE LeftTree(_)
\* Number, BinaryOp(Number, Number), BinaryOp(BinaryOp(Number, Number), Number), ...
LeftTree(k) == IF k = 1 THEN Number ELSE BinaryOp(LeftTree(k - 1), Number)

\* every contiguous piece of the longest chain
ExprInputs ==
    LET whole == Chain(MaxTerms)
    IN  {SubSeq(whole, i, j) : i \in 1..(Len(whole) + 1), j \in 0..Len(whole)}

\* inputs of one nesting level over "(", ")" and a character that is neither,
\* as in "()extra": every contiguous piece of "())e", and ")(", "(e", "()e"
ParenInputs ==
    LET whole == <<"(", ")", ")", "e">>
    IN  {SubSeq(whole, i, j) : i \in 1..(Len(whole) + 1), j \in 0..Len(whole)}
        \cup {<<")", "(">>, <<"(", "e">>, <<"(", ")", "e">>}
\* every contiguous piece of "()()"
NestInputs ==
    LET whole == <<"(", ")", "(", ")">>
    IN  {SubSeq(whole, i, j) : i \in 1..(Len(whole) + 1), j \in 0..Len(whole)}
\* every contiguous piece of "aacb"
AbcInputs ==
    LET whole == <<"a", "a", "c", "b">>
    IN  {SubSeq(whole, i, j) : i \in 1..(Len(whole) + 1), j \in 0..Len(whole)}
\* every contiguous piece of "byxayx"
AyxInputs ==
    LET whole == <<"b", "y", "x", "a", "y", "x">>
    IN  {SubSeq(whole, i, j) : i \in 1..(Len(whole) + 1), j \in 0..Len(whole)}

InputsOf(p) ==
    CASE p = ExprParser -> ExprInputs
      [] p = ParenParser -> ParenInputs
      [] p = PackratParen -> NestInputs
      [] p = BaseFirstRule -> AbcInputs
      [] p = RuleA -> AyxInputs
      [] OTHER -> ShortInputs

\* a parser that keeps nothing between calls is called once
SessionCalls(p) == IF p = ParenParser THEN 1 ELSE MaxCalls

\* ------------------------------------------------------ state machine

\* a parser has been built and nothing has been parsed with it
Init ==
    /\ parser \in Combinators
    /\ st = NewState("asc")
    /\ history = <<>>

\* one top-level parser.parse(input)
Call(input) ==
    LET r == Eval(parser, input, st, Fuel)
    IN  /\ st' = r.st
        /\ history' = Append(history, [input |-> input, out |-> r.o])
        /\ UNCHANGED parser

\* the parsers that are given the same input again
CallsOn(p) == IF p[1] = "many" THEN MaxCalls ELSE 1

\* parser.parse(input) once more, with the input of the call before
Again == history # <<>> /\ Len(history) < CallsOn(parser) /\ Call(history[Len(history)].input)

\* a combinator keeps nothing between calls: one input on each parser
Next ==
    \/ \E input \in StrInputs : history = <<>> /\ Call(input)
    \/ Again

Spec == Init /\ [][Next]_vars

InitSession ==
    /\ parser \in SessionParsers
    /\ st \in {NewState(order) : order \in {"asc", "desc"}}
    /\ history = <<>>

\* a memoizing or packrat parser is called again and again
NextSession ==
    \E input \in InputsOf(parser) : Len(history) < SessionCalls(parser) /\ Call(input)

SpecSession == InitSession /\ [][NextSession]_vars

\* ------------------------------------------------------------ claims

\* the latest top-level call
Last == history[Len(history)]

\* the wrapped parser of a counting wrapper
Inner(p) == p[3]

\* C1: on the left-recursive grammar expr -> expr "+" term | term wrapped with
\* packrat, parsing a "+"-separated chain of terms with a parser that has
\* parsed nothing else ends in success, an empty remainder and the
\* left-associative tree, "1+1+1" giving ((1+1)+1).
C1_LeftRecursiveChain ==
    parser = ExprParser =>
        \A i \in 1..Len(history) : \A k \in 1..MaxTerms :
            (/\ history[i].input = Chain(k)
             /\ \A j \in 1..i : history[j].input = Chain(k))
            => history[i].out = Ok(<<>>, LeftTree(k))

C1_Witness ==
    /\ parser = ExprParser
    /\ history # <<>>
    /\ history[1].input = <<"1", "+", "1", "+", "1">>
    /\ history[1].out = Ok(<<>>, BinaryOp(BinaryOp(Number, Number), Number))
    /\ st.pk["S1"].call_stack = <<>>

\* C2: memoize(P) returns on every call what P returns on that input, and P
\* is invoked at most once per distinct input, failures being cached as well
\* as successes.
C2_MemoizeTransparent ==
    parser \in MemoizedParsers =>
        /\ \A i \in 1..Len(history) :
               history[i].out = Fresh(Inner(parser[4]), history[i].input)
        /\ \A x \in ShortInputs :
               Calls(st, "p", x) =
                   IF \E i \in 1..Len(history) : history[i].input = x THEN 1 ELSE 0

C2_Witness ==
    /\ parser \in MemoizedParsers
    /\ Len(history) >= 2
    /\ history[1].input = history[2].input
    /\ history[2].out.k = "err"
    /\ Calls(st, "p", history[2].input) = 1

\* C3: for a packrat parser around a parser P that does not call the rule
\* again, repeated parses of the same input invoke P exactly once and every
\* call returns the outcome of that single invocation.
C3_PackratMemoizes ==
    parser \in CountingPackratParsers =>
        /\ \A i \in 1..Len(history) :
               history[i].out = Fresh(Inner(parser[5]), history[i].input)
        /\ \A x \in ShortInputs :
               Calls(st, "p", x) =
                   IF \E i \in 1..Len(history) : history[i].input = x THEN 1 ELSE 0

C3_Witness ==
    /\ parser \in CountingPackratParsers
    /\ Len(history) >= 2
    /\ history[1].input = history[2].input
    /\ history[2].out.k = "ok"
    /\ history[2].out = history[1].out
    /\ Calls(st, "p", history[2].input) = 1

\* C4: when P1 fails on input I, P1.alt(P2) runs P2 on the original input I
\* and not on the remainder P1's failure carried.
C4_AltSecondOnOriginalInput ==
    (/\ parser \in AltParsers
     /\ history # <<>>
     /\ Fresh(parser[2], Last.input).k = "err")
    => Calls(st, "p2", Last.input) = 1

\* C5: when P1 succeeds on the input, P1.alt(P2) returns P1's remainder and
\* P1's value tagged Left, and P2 is never invoked.
C5_AltLeftBiased ==
    (/\ parser \in AltParsers
     /\ history # <<>>
     /\ Fresh(parser[2], Last.input).k = "ok")
    => LET r1 == Fresh(parser[2], Last.input)
       IN  /\ Last.out = Ok(r1.rest, <<"Left", r1.v>>)
           /\ \A x \in StrInputs : Calls(st, "p2", x) = 0

C5_Witness ==
    /\ parser \in AltParsers
    /\ history # <<>>
    /\ Last.out.k = "ok"
    /\ Last.out.v[1] = "Left"
    /\ Fresh(parser[3], Last.input).k = "ok"
    /\ Calls(st, "p1", Last.input) = 1

C7_BacktrackRewinds ==
    (parser[1] = "backtrack" /\ history # <<>>) =>
        LET r == Fresh(parser[2], Last.input)
        IN  /\ r.k = "err" => Last.out = Fail(Last.input, r.v)
            /\ r.k = "ok" => Last.out = r

C7_Witness ==
    /\ parser[1] = "backtrack"
    /\ history # <<>>
    /\ Last.out.k = "err"
    /\ Last.out.rest = Last.input
    /\ Fresh(parser[2], Last.input).rest # Last.input

\* C8: when a parser built from the primitive matchers and the combinators
\* succeeds on input I, its remainder is a suffix of I.
C8_RemainderIsSuffix ==
    \A i \in 1..Len(history) :
        history[i].out.k = "ok" => Suffix(history[i].input, history[i].out.rest)

C8_Witness ==
    /\ parser \in NestedParsers \cup BinaryParsers
    /\ history # <<>>
    /\ Last.out.k = "ok"
    /\ Last.out.rest # <<>>
    /\ Last.out.rest # Last.input

\* C9: a primitive matcher that fails returns the supplied error and the
\* whole input as remainder.
C9_PrimitiveFailureConsumesNothing ==
    (parser \in Primitives /\ history # <<>> /\ Last.out.k = "err") =>
        /\ Last.out.rest = Last.input
        /\ Last.out.v = parser[Len(parser)]

C9_Witness ==
    /\ parser \in Primitives
    /\ parser[1] = "item"
    /\ history # <<>>
    /\ Last.input # <<>>
    /\ Last.out = Fail(Last.input, parser[Len(parser)])

\* C10: a primitive matcher returns Ok or Err on every input and never
\* panics, the empty input and inputs whose first character is longer than
\* one byte included.
C10_PrimitivesNeverPanic ==
    (parser \in Primitives /\ history # <<>>) => Returned(Last.out)

RECURSIVE Repeat(_, _, _)
\* P run again and again from input, at most limit times: the values of its
\* consecutive successes, and how and where the run stopped
Repeat(P, input, limit) ==
    IF limit = 0 THEN [vals |-> <<>>, rest |-> input, stop |-> "limit", e |-> <<>>]
    ELSE LET r == Fresh(P, input)
         IN  IF r.k = "ok"
             THEN LET t == Repeat(P, r.rest, limit - 1)
                  IN  [t EXCEPT !.vals = <<r.v>> \o @]
             ELSE [vals |-> <<>>, rest |-> r.rest, stop |-> r.k, e |-> r.v]

\* C11: P.many() never returns a failure; when P's consecutive successes end
\* in a failure it returns all their values in order with the remainder of
\* that first failure, and a second call on the same input returns the same.
C11_ManyCollectsAll ==
    parser[1] = "many" =>
        \A i \in 1..Len(history) :
            LET t == Repeat(parser[2], history[i].input, MaxLen + 2)
            IN  /\ history[i].out.k # "err"
                /\ t.stop = "err" => history[i].out = Ok(t.rest, <<"vec", t.vals>>)
                /\ \A j \in 1..i :
                       history[j].input = history[i].input => history[j].out = history[i].out

C11_Witness ==
    /\ parser[1] = "many"
    /\ Len(history) = 2
    /\ history[1].input = history[2].input
    /\ history[2].out.k = "ok"
    /\ Len(history[2].out.v[2]) = 2
    /\ history[2].out.rest # <<>>

\* C12: P.maybe() never returns a failure: it returns Some(value) with P's
\* remainder when P succeeds and None with the remainder of P's failure when
\* P fails.
C12_MaybeNeverFails ==
    (parser[1] = "maybe" /\ history # <<>>) =>
        LET r == Fresh(parser[2], Last.input)
        IN  /\ Last.out.k # "err"
            /\ r.k = "ok" => Last.out = Ok(r.rest, <<"Some", r.v>>)
            /\ r.k = "err" => Last.out = Ok(r.rest, <<"None">>)

C12_Witness ==
    /\ parser[1] = "maybe"
    /\ history # <<>>
    /\ Last.out.k = "ok"
    /\ Last.out.v = <<"None">>
    /\ Last.out.rest # Last.input

\* C13: P.exactly_n::<N>(err) fails with the supplied error err when P
\* matches fewer than N times, and succeeds with exactly N values, further
\* matches left unconsumed, when P matches N times.
C13_ExactlyNSuppliedError ==
    (parser[1] = "exactly_n" /\ history # <<>>) =>
        LET t == Repeat(parser[2], Last.input, parser[3])
        IN  /\ t.stop = "err" => (Last.out.k = "err" /\ Last.out.v = parser[4])
            /\ t.stop = "limit" => Last.out = Ok(t.rest, <<"arr", t.vals>>)

C15_AtLeastNCollectsAll ==
    (parser[1] = "at_least_n" /\ history # <<>>) =>
        LET t == Repeat(parser[2], Last.input, MaxLen + 2)
        IN  t.stop = "err" =>
                IF Len(t.vals) >= parser[3]
                THEN Last.out = Ok(t.rest, <<"vec", t.vals>>)
                ELSE Last.out.k = "err" /\ Last.out.v = parser[4]

\* C15 amended: P.at_least_n(n, err) succeeds iff P matches n consecutive
\* times, then with exactly the first n matches collected and the remainder
\* after the n-th match, further matches left unconsumed; otherwise it fails
\* with err and the remainder of P's failure.
C15_AtLeastNStopsAtN ==
    (parser[1] = "at_least_n" /\ history # <<>>) =>
        LET t == Repeat(parser[2], Last.input, parser[3])
        IN  /\ t.stop = "limit" => Last.out = Ok(t.rest, <<"vec", t.vals>>)
            /\ t.stop = "err" => Last.out = Fail(t.rest, parser[4])
            /\ Last.out.k = "ok" => Len(Last.out.v[2]) = parser[3]

C15_Witness ==
    /\ parser[1] = "at_least_n"
    /\ history # <<>>
    /\ Last.out.k = "ok"
    /\ Len(Last.out.v[2]) = 2
    /\ Fresh(parser[2], Last.out.rest).k = "ok"
    /\ Fresh(parser[2], Last.out.rest).rest # Last.out.rest

\* C16: P.validate(pred, err) fails with err and the original input as
\* remainder when P succeeds and pred rejects the value, returns P's success
\* unchanged when pred accepts it, and passes P's failure through.
C16_ValidateRewinds ==
    (parser[1] = "validate" /\ history # <<>>) =>
        LET r == Fresh(parser[2], Last.input)
        IN  /\ (r.k = "ok" /\ ~ApplyPred(parser[3], r.v)) =>
                   Last.out = Fail(Last.input, parser[4])
            /\ (r.k = "ok" /\ ApplyPred(parser[3], r.v)) => Last.out = r
            /\ r.k = "err" => Last.out = r

C16_Witness ==
    /\ parser[1] = "validate"
    /\ history # <<>>
    /\ Last.out = Fail(Last.input, parser[4])
    /\ Fresh(parser[2], Last.input).k = "ok"
    /\ Fresh(parser[2], Last.input).rest # Last.input

\* C17: peek and lookahead return P's value with the original input as
\* remainder when P succeeds; when P fails lookahead returns P's error with
\* the original input and peek returns P's failure with P's remainder.
C17_PeekAndLookahead ==
    (parser[1] \in {"peek", "lookahead"} /\ history # <<>>) =>
        LET r == Fresh(parser[2], Last.input)
        IN  /\ r.k = "ok" => Last.out = Ok(Last.input, r.v)
            /\ (r.k = "err" /\ parser[1] = "lookahead") => Last.out = Fail(Last.input, r.v)
            /\ (r.k = "err" /\ parser[1] = "peek") => Last.out = Fail(r.rest, r.v)

C17_Witness ==
    /\ parser[1] = "peek"
    /\ history # <<>>
    /\ Last.out.k = "err"
    /\ Last.out.rest # Last.input
    /\ Fresh(<<"lookahead", parser[2]>>, Last.input) = Fail(Last.input, Last.out.v)

\* C18: P.recover_with(f) returns P's success without calling f; when P
\* fails with e it runs the parser f(e) on the original input and returns
\* that parser's outcome, success or failure.
C18_RecoverOnOriginalInput ==
    (parser[1] = "recover_with" /\ history # <<>>) =>
        LET r == Fresh(parser[2], Last.input)
        IN  /\ r.k = "ok" =>
                /\ Last.out = r
                /\ \A x \in StrInputs : Calls(st, "p2", x) = 0
            /\ r.k = "err" =>
                /\ Last.out = Fresh(MakeParser(parser[3], r.v), Last.input)
                /\ (parser[3][1] = "K" /\ parser[3][2][1] = "counting") =>
                       \A x \in StrInputs :
                           Calls(st, "p2", x) = IF x = Last.input THEN 1 ELSE 0

C18_Witness ==
    /\ parser \in RecoverParsers
    /\ history # <<>>
    /\ Fresh(parser[2], Last.input).k = "err"
    /\ Fresh(parser[2], Last.input).rest # Last.input
    /\ Last.out.k = "ok"
    /\ Calls(st, "p2", Last.input) = 1

RECURSIVE Pairs(_, _, _, _)
\* (S P)* read from rest, at most limit pairs: the values of the S and of the
\* P of every complete pair, the remainder after the last complete pair, and
\* how the run stopped
Pairs(P, S, rest, limit) ==
    IF limit = 0 THEN [ops |-> <<>>, vals |-> <<>>, rest |-> rest, stop |-> "limit"]
    ELSE LET rs == Fresh(S, rest)
             ri == Fresh(P, rs.rest)
         IN  IF rs.k # "ok" THEN [ops |-> <<>>, vals |-> <<>>, rest |-> rest, stop |-> rs.k]
             ELSE IF ri.k # "ok" THEN [ops |-> <<>>, vals |-> <<>>, rest |-> rest, stop |-> ri.k]
             ELSE LET t == Pairs(P, S, ri.rest, limit - 1)
                  IN  [t EXCEPT !.ops = <<rs.v>> \o @, !.vals = <<ri.v>> \o @]

RECURSIVE Foldl(_, _, _)
\* f_k(... f_2(f_1(acc, v_1), v_2) ..., v_k)
Foldl(acc, ops, vals) ==
    IF ops = <<>> THEN acc
    ELSE Foldl(ApplyFn2(Head(ops), acc, Head(vals)), Tail(ops), Tail(vals))

\* C19: sep_by and sep_by1 return the items of item (sep item)* in order and
\* leave a separator that no item follows unconsumed; when the first item
\* fails sep_by returns the empty list with the original input and sep_by1
\* fails with err and the original input; sep_by never fails.
C19_SepByItems ==
    (parser[1] \in {"sep_by", "sep_by1"} /\ history # <<>>) =>
        LET r == Fresh(parser[2], Last.input)
            t == Pairs(parser[2], parser[3], r.rest, MaxLen + 2)
        IN  /\ (r.k = "ok" /\ t.stop = "err") =>
                   Last.out = Ok(t.rest, <<"vec", <<r.v>> \o t.vals>>)
            /\ (r.k = "err" /\ parser[1] = "sep_by") =>
                   Last.out = Ok(Last.input, <<"vec", <<>>>>)
            /\ (r.k = "err" /\ parser[1] = "sep_by1") =>
                   Last.out = Fail(Last.input, parser[4])
            /\ parser[1] = "sep_by" => Last.out.k # "err"

C19_Witness ==
    /\ parser[1] \in {"sep_by", "sep_by1"}
    /\ history # <<>>
    /\ Last.out.k = "ok"
    /\ Len(Last.out.v[2]) >= 1
    /\ Last.out.rest # <<>>
    /\ Fresh(parser[3], Last.out.rest).k = "ok"
    /\ Fresh(parser[3], Last.out.rest).rest # Last.out.rest

\* C20: P.chainl1(op) folds to the left, returning
\* f_{k-1}(... f_2(f_1(t1, t2), t3) ..., tk) over t1 o1 t2 ... tk; it fails
\* only when the first term fails, and an operator that no term follows is
\* left unconsumed.
C20_Chainl1FoldsLeft ==
    (parser[1] = "chainl1" /\ history # <<>>) =>
        LET r == Fresh(parser[2], Last.input)
            t == Pairs(parser[2], parser[3], r.rest, MaxLen + 2)
        IN  /\ (r.k = "ok" /\ t.stop = "err") =>
                   Last.out = Ok(t.rest, Foldl(r.v, t.ops, t.vals))
            /\ r.k = "err" => Last.out = r
            /\ Last.out.k = "err" => r.k = "err"

C20_Witness ==
    /\ parser[1] = "chainl1"
    /\ history # <<>>
    /\ Last.out.k = "ok"
    /\ Last.out.v[1] = "app2"
    /\ Last.out.v[3][1] = "app2"
    /\ Last.out.rest # Last.input

\* ---------------------------------------------------------------- C21

\* the nesting depth the grammar P -> "(" P ")" | empty assigns to an
\* input: the largest d with d "(" followed by d ")" at its start
RECURSIVE Opens(_)
Opens(i) == IF i # <<>> /\ i[1] = "(" THEN 1 + Opens(Drop(i, 1)) ELSE 0

RECURSIVE Closes(_)
Closes(i) == IF i # <<>> /\ i[1] = ")" THEN 1 + Closes(Drop(i, 1)) ELSE 0

Depth(i) ==
    LET o == Opens(i)
    IN  IF Closes(Drop(i, o)) >= o THEN o ELSE 0

\* C21: the parenthesis grammar built with recursive() answers every input
\* with a success whose value is the depth d of the well-nested prefix and
\* whose remainder is the input after d "(" and d ")"; an input without such
\* a prefix gives depth 0 and the whole input.
C21_ParenDepth ==
    (parser = ParenParser /\ history # <<>>) =>
        Last.out = Ok(Drop(Last.input, 2 * Depth(Last.input)), Int(Depth(Last.input)))

\* ---------------------------------------------------------------- C22

\* C22: a packrat rule without a base case ends every parse in an ordinary
\* failure that carries the input of the call as remainder, and never in a
\* panic, whatever the error type of the parser is.
C22_LeftRecursionFailsNormally ==
    (parser \in {LoopRule, LoopRuleCustom} /\ history # <<>>) =>
        (Last.out.k = "err" /\ Last.out.rest = Last.input)

\* ---------------------------------------------------------------- C23

\* C23: a rule is left-recursive only where it is re-entered at the same
\* input position.  The parenthesis grammar re-enters its rule after the
\* "(", at a later position, so as a packrat rule it is evaluated as the
\* grammar itself is: its first parse gives the result of the plain parser.
C23_LaterPositionEvaluatedNormally ==
    (parser = PackratParen /\ Len(history) = 1) =>
        Last.out = Fresh(ParenParser, Last.input)

\* ---------------------------------------------------------------- C24

\* C24: what the left-recursive expr parser answers for an input does not
\* depend on the inputs it was given before: every parse gives the result a
\* parser that has parsed nothing gives for that input.
C24_IndependentOfEarlierInputs ==
    (parser = ExprParser /\ history # <<>>) =>
        Last.out = Fresh(ExprParser, Last.input)

\* ---------------------------------------------------------------- C27

\* C27: once a top-level parse of a packrat parser has returned, no entry of
\* its memo table is left in the state Evaluating.
C27_NoEvaluatingLeft ==
    (history # <<>> /\ Returned(Last.out)) =>
        \A sid \in DOMAIN st.pk : \A key \in DOMAIN st.pk[sid].memo_table :
            st.pk[sid].memo_table[key] # Evaluating

\* ---------------------------------------------------------------- C25

\* C25: whatever a packrat parser has parsed before, a parse of the input I
\* that returns hands back a remainder that is a suffix of I: a success that
\* was cached for another start position is never used as an answer.
C25_RemainderIsSuffix ==
    (parser = BaseFirstRule /\ history # <<>> /\ Returned(Last.out)) =>
        Suffix(Last.input, Last.out.rest)

\* ---------------------------------------------------------------- C26

\* the growth loop of the expr rule can still run: no left-recursive call
\* of the rule was met yet, or its recursion state is Growing
GrowthOpen(s) ==
    LET pk == PkGet(s, "S1")
    IN  "expr" \in DOMAIN pk.recursion_state =>
            pk.recursion_state["expr"].status = "Growing"

RECURSIVE Pluses(_)
\* the number of "+1" pieces an input begins with
Pluses(i) ==
    IF Len(i) >= 2 /\ i[1] = "+" /\ i[2] = "1" THEN 1 + Pluses(Drop(i, 2)) ELSE 0

\* the number of terms of the longest "1+1+..." an input begins with
Terms(i) == IF i # <<>> /\ i[1] = "1" THEN 1 + Pluses(Drop(i, 1)) ELSE 0

\* the call `c` grew its seed to the end: it returned the longest chain at
\* the start of the input, one more pass over the body with that result
\* cached fails or leaves no shorter remainder, the rule is marked Stable,
\* exactly the returned result is cached, and a further call returns it
GrownToBest(s, c) ==
    LET pk == PkGet(s, "S1")
        pass == Eval(ExprBody, c.input, s, Fuel).o
    IN  /\ c.out = Ok(Drop(c.input, 2 * Terms(c.input) - 1), LeftTree(Terms(c.input)))
        /\ ~(pass.k = "ok" /\ Len(pass.rest) < Len(c.out.rest))
        /\ pk.recursion_state["expr"].status = "Stable"
        /\ pk.memo_table[<<c.input, "expr">>] = c.out
        /\ Eval(ExprParser, c.input, s, Fuel).o = c.out

C26_Step ==
    (parser = ExprParser /\ GrowthOpen(st) /\ history' # history /\ Last'.out.k = "ok")
        => GrownToBest(st', Last')

\* C26: a successful parse of the left-recursive expr rule, made while the
\* rule's growth loop can run, re-evaluates the rule for as long as the
\* remainder shrinks and returns the last improvement: the longest chain,
\* which is then the cached result of that input and the answer of later
\* calls, with the rule marked Stable.
C26_SeedAndGrow == [][C26_Step]_vars

\* a parse that grew its seed twice
C26_Witness ==
    /\ parser = ExprParser
    /\ Len(history) = 1
    /\ Last.input = Chain(3)
    /\ Last.out = Ok(<<>>, LeftTree(3))
    /\ PkGet(st, "S1").recursion_state["expr"].status = "Stable"

\* ---------------------------------------------------------------- C29

\* C29: with the mutually left-recursive rules A -> B "x" | "a" and
\* B -> A "y" | "b" over one shared state, parsing "ayx" as A succeeds and
\* consumes the whole input.
C29_IndirectLeftRecursion ==
    (parser = RuleA /\ Len(history) = 1 /\ Last.input = <<"a", "y", "x">>) =>
        (Last.out.k = "ok" /\ Last.out.rest = <<>>)

\* ---------------------------------------------------------------- C28

\* every top-level parse made so far has returned
AllReturned == \A i \in 1..Len(history) : Returned(history[i].out)

\* the rules in progress when the body noted under `tag` is evaluated in a
\* parse of rule A: A itself, and B inside A
InProgress(tag) == IF tag = "A" THEN <<"A">> ELSE <<"A", "B">>

\* C28: the call stack of a packrat state is balanced.  After top-level
\* parses that returned it is empty, and every call stack a rule body saw
\* during a parse of the rules A and B held exactly the rules whose
\* evaluation was in progress, outermost first.
C28_CallStackBalanced ==
    (history # <<>> /\ AllReturned) =>
        /\ \A sid \in DOMAIN st.pk : st.pk[sid].call_stack = <<>>
        /\ parser = RuleA => \A seen \in st.stacks : seen[2] = InProgress(seen[1])

\* a returned parse of A during which the bodies of both rules were evaluated
C28_Witness ==
    /\ parser = RuleA
    /\ history # <<>>
    /\ AllReturned
    /\ {seen[1] : seen \in st.stacks} = {"A", "B"}
    /\ PkGet(st, "S1").call_stack = <<>>

\* ---------------------------------------------------------------- C30

RECURSIVE SumCalls(_, _)
SumCalls(calls, keys) ==
    IF keys = {} THEN 0
    ELSE LET key == CHOOSE k \in keys : TRUE
         IN  calls[key] + SumCalls(calls, keys \ {key})

\* how often the counted parser `id` was invoked so far, on whatever input
TotalCalls(s, id) == SumCalls(s.calls, {key \in DOMAIN s.calls : key[1] = id})

\* every success of p consumes at least one item
Consuming(p) ==
    \A i \in StrInputs : Fresh(p, i).k = "ok" => Len(Fresh(p, i).rest) < Len(i)

CountedRepetition ==
    /\ parser[1] \in {"many", "at_least_n", "at_most_n", "exactly_n"}
    /\ parser[2][1] = "counting"

\* C30: the repetition loops terminate.  at_least_n(n), at_most_n::<N> and
\* exactly_n::<N> invoke the inner parser at most n (N) times in a parse;
\* many over a parser whose successes all consume comes to an end after at
\* most len(input) + 1 invocations.
C30_RepetitionsTerminate ==
    (history # <<>> /\ CountedRepetition) =>
        IF parser[1] = "many"
        THEN Consuming(Inner(parser[2])) =>
                 /\ Last.out.k # "diverge"
                 /\ TotalCalls(st, "p1") <= Len(history) * (Len(Last.input) + 1)
        ELSE /\ Last.out.k # "diverge"
             /\ TotalCalls(st, "p1") <= parser[3]

\* many took every turn the input allows: three successes and the failure
C30_Witness ==
    /\ parser = <<"many", Counting1(A)>>
    /\ Len(history) = 1
    /\ Last.input = <<"a", "a", "a">>
    /\ TotalCalls(st, "p1") = 4

====
